---- MODULE Spec2Model ----
\* TTL management of room-scoped game state kept in Redis
\* (GameRedisMemoryService): the periodic sweep manageTTL, the page batcher
\* processBatch and the per-room refresh setRoomTTL with its three sub-tasks.
EXTENDS Integers, Sequences, FiniteSets, TLC

\* ------------------------------------------------------------------ bounds
NRooms == 2
NPlayers == 3
NQuizzes == 1
\* The call counters of an invocation count up to MaxCount and stay there.
MaxCount == 2
\* The longest page handed to processBatch on its own.
MaxPage == 3
\* The most keys whose commands fail inside one delivered pipeline.
MaxFailed == 1

\* ------------------------------------------------------- program constants
BATCH_SIZE == 100
TTL_ROOM == 3 * 60 * 60
TTL_PLAYER == 2 * 60 * 60
TTL_QUIZ == 1 * 60 * 60
TTL_LEADERBOARD == 3 * 60 * 60
\* let cursor = '0'
StartCursor == 0
\* @Cron(CronExpression.EVERY_MINUTE): the seconds between two triggers.
TickSeconds == 60

\* Replies of the store for the remaining life of a key: no such key, and a
\* key that never expires.
Absent == 0 - 2
NoExpiry == 0 - 1
\* A remaining life a key may have before this service touches it.
Remaining == 1800

\* ---------------------------------------------------------------- strings
\* A string is a sequence of tokens; the separator is a token of its own, so
\* that splitting a key is computed and not assumed.
Sep == ":"
Undefined == <<"undefined">>

Min(a, b) == IF a < b THEN a ELSE b
Max(a, b) == IF a > b THEN a ELSE b

RECURSIVE SplitFrom(_, _, _)
SplitFrom(s, i, cur) ==
    IF i > Len(s) THEN <<cur>>
    ELSE IF s[i] = Sep THEN <<cur>> \o SplitFrom(s, i + 1, <<>>)
    ELSE SplitFrom(s, i + 1, Append(cur, s[i]))

\* String.prototype.split(':')
Split(s) == SplitFrom(s, 1, <<>>)

\* parts[i] of a JavaScript array (0-based index i), undefined out of range
At(parts, i) == IF i + 1 <= Len(parts) THEN parts[i + 1] ELSE Undefined

\* Mutant of Falsy: only the empty string is skipped.
FalsyEmptyOnly(x) == x = <<>>

\* !x for a string or undefined
Falsy(x) == x = Undefined \/ x = <<>>

\* ------------------------------------------------------------- identifiers
RoomIds == {<<ToString(i)>> : i \in 1..NRooms}
PlayerIds == {<<"p" \o ToString(i)>> : i \in 1..NPlayers}
QuizIds == {<<"q" \o ToString(i)>> : i \in 1..NQuizzes}
\* An identifier under which the store holds nothing.
Nonexistent == <<"nonexistent">>

\* ------------------------------------------------------------- key naming
ROOM(roomId) == <<"Room", Sep>> \o roomId
ROOM_PLAYERS(roomId) == ROOM(roomId) \o <<Sep, "Players">>
ROOM_LEADERBOARD(roomId) == ROOM(roomId) \o <<Sep, "Leaderboard">>
ROOM_CURRENT_QUIZ(roomId) == ROOM(roomId) \o <<Sep, "CurrentQuiz">>
ROOM_QUIZ_SET(roomId) == ROOM(roomId) \o <<Sep, "QuizSet">>
ROOM_QUIZ(roomId, quizId) == ROOM(roomId) \o <<Sep, "Quiz", Sep>> \o quizId
ROOM_QUIZ_CHOICES(roomId, quizId) == ROOM_QUIZ(roomId, quizId) \o <<Sep, "Choices">>
PLAYER(playerId) == <<"Player", Sep>> \o playerId

\* The keys of one room, in the order the store holds them.
RoomSlots(roomId) ==
    <<ROOM(roomId), ROOM_PLAYERS(roomId), ROOM_LEADERBOARD(roomId),
      ROOM_CURRENT_QUIZ(roomId), ROOM_QUIZ_SET(roomId)>>
    \o [j \in 1..(2 * NQuizzes) |->
          IF j % 2 = 1 THEN ROOM_QUIZ(roomId, <<"q" \o ToString((j + 1) \div 2)>>)
          ELSE ROOM_QUIZ_CHOICES(roomId, <<"q" \o ToString(j \div 2)>>)]

RECURSIVE SlotsFrom(_)
SlotsFrom(i) ==
    IF i > NRooms THEN <<>>
    ELSE (IF i <= NPlayers THEN <<PLAYER(<<"p" \o ToString(i)>>)>> ELSE <<>>)
         \o RoomSlots(<<ToString(i)>>) \o SlotsFrom(i + 1)

\* The keyspace as the store iterates it: a fixed order of every key the
\* model knows, player records interleaved with the rooms.
KeySlots ==
    SlotsFrom(1)
    \o [j \in 1..Max(0, NPlayers - NRooms) |-> PLAYER(<<"p" \o ToString(NRooms + j)>>)]

Keys == {KeySlots[i] : i \in 1..Len(KeySlots)}
SetKeys == {ROOM_PLAYERS(r) : r \in RoomIds} \cup {ROOM_QUIZ_SET(r) : r \in RoomIds}

\* ------------------------------------------------------------------- state
VARIABLES
    ttl,        \* store: remaining life of every key (Absent: no such key)
    members,    \* store: the members of the membership sets
    sweeps,     \* the invocations of manageTTL
    calls,      \* the invocations of setRoomTTL
    refreshed   \* the identifier the last call to return refreshed with every
                \* sub-task succeeding (Undefined: its sub-tasks did not all succeed)

vars == <<ttl, members, sweeps, calls, refreshed>>

\* The invocations that may be in flight at once, and the ones the
\* specifications of a single timeline use.
SweepIds == {"s1", "s2"}
CallIds == {"c1", "c2"}
OneSweep == {"s1"}
OneCall == {"c1"}

\* ------------------------------------------------------------------- store
TTLOf(t, key) == IF key \in Keys THEN t[key] ELSE Absent
Exists(t, key) == TTLOf(t, key) # Absent

\* Mutant of Expire: the seconds are added to the life the key has left.
ExpireExtends(t, key, cmds, idx) ==
    IF idx = {} \/ t[key] = Absent THEN t[key]
    ELSE Max(t[key], 0) + cmds[CHOOSE i \in idx : \A j \in idx : j <= i].seconds

\* Mutant of Expire: EXPIRE ... NX, which leaves a key that has a life alone.
ExpireNX(t, key, cmds, idx) ==
    IF idx = {} \/ t[key] # NoExpiry THEN t[key]
    ELSE cmds[CHOOSE i \in idx : \A j \in idx : j <= i].seconds

\* Mutant of Expire: the command writes the key, as a SET with an expiry would.
ExpireCreates(t, key, cmds, idx) ==
    IF idx = {} THEN t[key]
    ELSE cmds[CHOOSE i \in idx : \A j \in idx : j <= i].seconds

\* EXPIRE key seconds, as the last of the commands idx of a pipeline that
\* address the key: it sets the remaining life of an existing key, and is a
\* no-op on a key that does not exist.
Expire(t, key, cmds, idx) ==
    IF idx = {} \/ t[key] = Absent THEN t[key]
    ELSE cmds[CHOOSE i \in idx : \A j \in idx : j <= i].seconds

\* pipeline.exec(): every queued command is applied, in order, so that each
\* key ends with the life its last command gives it.
PipelineExec(t, cmds) ==
    [k \in Keys |-> Expire(t, k, cmds, {i \in 1..Len(cmds) : cmds[i].key = k})]

\* Mutant of PipelineExecPartial: one failing command leaves the whole
\* pipeline without effect, as a transaction would.
PipelineExecAllOrNothing(t, cmds, bad) == t

\* pipeline.exec() of a pipeline that is delivered and in which the commands
\* on the keys bad fail one by one: the reply holds an error for each of
\* them and the other commands are applied.
PipelineExecPartial(t, cmds, bad) ==
    [k \in Keys |->
        Expire(t, k, cmds, {i \in 1..Len(cmds) : cmds[i].key = k /\ k \notin bad})]

\* The store after d seconds: a key whose life runs out is removed.
Age(t, d) ==
    [k \in Keys |->
        IF t[k] = Absent \/ t[k] = NoExpiry THEN t[k]
        ELSE IF t[k] - d <= 0 THEN Absent
        ELSE t[k] - d]

\* SMEMBERS key: the members of the set, none when the key does not exist.
SMembers(t, m, key) ==
    IF key \in SetKeys /\ Exists(t, key) THEN m[key] ELSE {}

RECURSIVE SetToSeq(_)
SetToSeq(S) ==
    IF S = {} THEN <<>>
    ELSE LET x == CHOOSE y \in S : TRUE IN <<x>> \o SetToSeq(S \ {x})

\* MATCH 'Room:*'
MatchesRoomPattern(key) == Len(key) >= 2 /\ key[1] = "Room" /\ key[2] = Sep

\* The keys the store holds, in its iteration order.
Keyspace(t) == SelectSeq(KeySlots, LAMBDA k : t[k] # Absent)

\* SCAN cursor MATCH Room:* COUNT count, having inspected n slots on this call
\* (the count is a hint: 1 <= n <= count). The cursor is the number of slots
\* already iterated; the reply's cursor is 0 when the iteration is complete.
ScanReply(t, cursor, n) ==
    LET space == Keyspace(t)
        upto == Min(cursor + n, Len(space))
    IN  [cursor |-> IF upto >= Len(space) THEN 0 ELSE upto,
         rooms |-> SelectSeq(SubSeq(space, cursor + 1, upto), MatchesRoomPattern)]

\* The slot counts one SCAN call may inspect.
ScanSteps(t, cursor, count) ==
    1..Max(1, Min(count, Len(Keyspace(t)) - cursor))

\* ------------------------------------------------------------ processBatch
ExpireCmd(key, seconds) == [key |-> key, seconds |-> seconds]

\* Mutant of RoomIdOf: the last segment of the key is taken.
RoomIdOfLast(roomKey) == At(Split(roomKey), Len(Split(roomKey)) - 1)

\* roomKey.split(':')[1]
RoomIdOf(roomKey) == At(Split(roomKey), 1)

\* Mutant of BaseKeys: the quiz set is expired in place of the leaderboard.
BaseKeysQuizSet(roomId) ==
    <<ROOM(roomId), ROOM_PLAYERS(roomId), ROOM_QUIZ_SET(roomId),
      ROOM_CURRENT_QUIZ(roomId)>>

BaseKeys(roomId) ==
    <<ROOM(roomId), ROOM_PLAYERS(roomId), ROOM_LEADERBOARD(roomId),
      ROOM_CURRENT_QUIZ(roomId)>>

\* The identifiers of a page that pass the test if (!roomId) continue.
PageRoomIds(rooms) ==
    LET ids == [i \in 1..Len(rooms) |-> RoomIdOf(rooms[i])]
    IN  SelectSeq(ids, LAMBDA x : ~Falsy(x))

\* The pipeline processBatch builds for a page: for each identifier in turn,
\* an expiration of each of its four base keys.
ProcessBatchCmds(rooms) ==
    LET ids == PageRoomIds(rooms)
    IN  [j \in 1..(4 * Len(ids)) |->
           ExpireCmd(BaseKeys(ids[((j - 1) \div 4) + 1])[((j - 1) % 4) + 1], TTL_ROOM)]

\* ---------------------------------------------------------------- manageTTL
\* An invocation that has not been triggered yet.
IdleSweep ==
    [pc |-> "idle", cursor |-> StartCursor, rooms |-> <<>>, pipeline |-> <<>>,
     scans |-> 0, batches |-> 0, seen |-> <<>>, enq |-> <<>>,
     result |-> "none", promise |-> "none"]

\* let cursor = '0', then the first scan call is issued.
StartSweep ==
    [IdleSweep EXCEPT !.pc = "scan", !.result = "running", !.promise = "pending"]

\* One more call, counted up to MaxCount.
Count(n) == Min(n + 1, MaxCount)

\* Mutant of ShouldProcess: every page is handed to processBatch.
ShouldProcessAlways(rooms) == TRUE

\* if (rooms.length > 0)
ShouldProcess(rooms) == Len(rooms) > 0

\* Mutant of LoopTest: while (true).
LoopTestNever(sw) ==
    [sw EXCEPT !.pc = "scan", !.rooms = <<>>, !.pipeline = <<>>]

\* while (cursor !== '0'), and the verbose log after the loop.
LoopTest(sw) ==
    IF sw.cursor # StartCursor
    THEN [sw EXCEPT !.pc = "scan", !.rooms = <<>>, !.pipeline = <<>>]
    ELSE [sw EXCEPT !.pc = "done", !.rooms = <<>>, !.pipeline = <<>>,
                    !.result = "completed", !.promise = "fulfilled"]

\* Mutant of CatchSweepError: the handler sits inside the loop, which goes on.
CatchInsideLoop(sw) ==
    [sw EXCEPT !.pc = "scan", !.rooms = <<>>, !.pipeline = <<>>,
               !.result = "aborted"]

\* catch (error): the failure is logged and the invocation ends normally.
CatchSweepError(sw) ==
    [sw EXCEPT !.pc = "done", !.rooms = <<>>, !.pipeline = <<>>,
               !.result = "aborted", !.promise = "fulfilled"]

\* The state of the invocation after a scan reply: the cursor is taken, and a
\* non-empty page is handed to processBatch, which builds its pipeline and
\* submits it.
AfterScan(sw, reply) ==
    LET got == [sw EXCEPT !.cursor = reply.cursor, !.rooms = reply.rooms,
                          !.scans = Count(@),
                          !.seen = @ \o reply.rooms]
    IN  IF ShouldProcess(reply.rooms)
        THEN [got EXCEPT !.pc = "exec",
                         !.pipeline = ProcessBatchCmds(reply.rooms),
                         !.batches = Count(@),
                         !.enq = @ \o PageRoomIds(reply.rooms)]
        ELSE LoopTest(got)

\* @Cron(EVERY_MINUTE): the scheduler triggers an invocation.
ManageTTL(s) ==
    /\ sweeps[s].pc \in {"idle", "done"}
    /\ sweeps' = [sweeps EXCEPT ![s] = StartSweep]
    /\ UNCHANGED <<ttl, members, calls, refreshed>>

\* await this.redis.scan(...) returns a page.
ScanOk(s) ==
    /\ sweeps[s].pc = "scan"
    /\ \E n \in ScanSteps(ttl, sweeps[s].cursor, BATCH_SIZE) :
         sweeps' = [sweeps EXCEPT
                      ![s] = AfterScan(sweeps[s], ScanReply(ttl, sweeps[s].cursor, n))]
    /\ UNCHANGED <<ttl, members, calls, refreshed>>

\* Mutant of ScanFail: the failure cancels every invocation in progress.
ScanFailAbortsAll(s) ==
    /\ sweeps[s].pc = "scan"
    /\ sweeps' = [x \in SweepIds |->
                    IF sweeps[x].pc \in {"scan", "exec"}
                    THEN CatchSweepError(sweeps[x]) ELSE sweeps[x]]
    /\ UNCHANGED <<ttl, members, calls, refreshed>>

\* await this.redis.scan(...) throws.
ScanFail(s) ==
    /\ sweeps[s].pc = "scan"
    /\ sweeps' = [sweeps EXCEPT ![s] = CatchSweepError(sweeps[s])]
    /\ UNCHANGED <<ttl, members, calls, refreshed>>

\* await pipeline.exec() of the page's batch returns.
SweepExecOk(s) ==
    /\ sweeps[s].pc = "exec"
    /\ ttl' = PipelineExec(ttl, sweeps[s].pipeline)
    /\ sweeps' = [sweeps EXCEPT ![s] = LoopTest(sweeps[s])]
    /\ UNCHANGED <<members, calls, refreshed>>

\* await pipeline.exec() of the page's batch throws: nothing is applied.
SweepExecFail(s) ==
    /\ sweeps[s].pc = "exec"
    /\ sweeps' = [sweeps EXCEPT ![s] = CatchSweepError(sweeps[s])]
    /\ UNCHANGED <<ttl, members, calls, refreshed>>

\* The next trigger of the schedule: TickSeconds after the trigger before it,
\* whose invocation has ended, manageTTL is invoked again.
Tick(s) ==
    /\ sweeps[s].pc \in {"idle", "done"}
    /\ ttl' = Age(ttl, TickSeconds)
    /\ sweeps' = [sweeps EXCEPT ![s] = StartSweep]
    /\ UNCHANGED <<members, calls, refreshed>>

\* The sets of keys whose commands may fail inside a delivered pipeline.
FailingKeys(cmds) ==
    {bad \in SUBSET {cmds[i].key : i \in 1..Len(cmds)} :
        Cardinality(bad) >= 1 /\ Cardinality(bad) <= MaxFailed}

\* await pipeline.exec() of the page's batch returns a reply that holds
\* errors of single commands: the reply is not looked at.
SweepExecPartial(s, bad) ==
    /\ sweeps[s].pc = "exec"
    /\ ttl' = PipelineExecPartial(ttl, sweeps[s].pipeline, bad)
    /\ sweeps' = [sweeps EXCEPT ![s] = LoopTest(sweeps[s])]
    /\ UNCHANGED <<members, calls, refreshed>>

\* The strings a page may hold besides well-formed room keys: processBatch
\* takes any string[], here the room keys, the namespace alone and the
\* namespace with an empty identifier.
PageKeys == {ROOM(r) : r \in RoomIds} \cup {<<"Room">>, <<"Room", Sep>>}
Pages == UNION {[1..n -> PageKeys] : n \in 1..MaxPage}

\* processBatch(rooms) on the page of the last scan reply of an invocation,
\* the page being any array of strings.
ProcessBatch(s, rooms) ==
    /\ sweeps[s].pc = "scan"
    /\ sweeps' = [sweeps EXCEPT
                    ![s] = AfterScan(sweeps[s], [cursor |-> StartCursor, rooms |-> rooms])]
    /\ UNCHANGED <<ttl, members, calls, refreshed>>

\* ---------------------------------------------------------------- setRoomTTL
Tasks == {"base", "players", "quiz"}
MemberKey(roomId, t) ==
    IF t = "players" THEN ROOM_PLAYERS(roomId) ELSE ROOM_QUIZ_SET(roomId)

\* Mutant of PlayersCmds: the player records get the life of a room.
PlayersCmdsRoomTTL(players) ==
    LET ps == SetToSeq(players)
    IN  [i \in 1..Len(ps) |-> ExpireCmd(PLAYER(ps[i]), TTL_ROOM)]

\* Mutant of PlayersCmds: every player the service knows is expired.
PlayersCmdsAll(players) ==
    LET ps == SetToSeq(PlayerIds)
    IN  [i \in 1..Len(ps) |-> ExpireCmd(PLAYER(ps[i]), TTL_PLAYER)]

\* The pipeline setPlayersTTL builds from the members it has read.
PlayersCmds(players) ==
    LET ps == SetToSeq(players)
    IN  [i \in 1..Len(ps) |-> ExpireCmd(PLAYER(ps[i]), TTL_PLAYER)]

\* The pipeline setQuizTTL builds from the members it has read.
QuizCmds(roomId, quizList) ==
    LET qs == SetToSeq(quizList)
    IN  [j \in 1..(2 * Len(qs)) |->
           IF j % 2 = 1
           THEN ExpireCmd(ROOM_QUIZ(roomId, qs[(j + 1) \div 2]), TTL_QUIZ)
           ELSE ExpireCmd(ROOM_QUIZ_CHOICES(roomId, qs[j \div 2]), TTL_QUIZ)]

\* Mutant of MemberCmds: setPlayersTTL also expires the player set it has
\* read, with the life of a player.
MemberCmdsWithSet(roomId, t, got) ==
    IF t = "players"
    THEN <<ExpireCmd(ROOM_PLAYERS(roomId), TTL_PLAYER)>> \o PlayersCmds(got)
    ELSE QuizCmds(roomId, got)

MemberCmds(roomId, t, got) ==
    IF t = "players" THEN PlayersCmds(got) ELSE QuizCmds(roomId, got)

IdleCall ==
    [pc |-> "idle", roomId |-> <<>>,
     task |-> [t \in Tasks |-> "none"],
     settled |-> [t \in Tasks |-> "none"],
     pipe |-> [t \in Tasks |-> <<>>],
     read |-> [t \in Tasks |-> {}],
     errs |-> {}, promise |-> "none", again |-> FALSE, ttl0 |-> <<>>]

\* The array literal of setRoomTTL: each sub-task runs up to its first await,
\* processBatch to the exec of its one-key page, the two others to their
\* smembers.
StartTasks(roomId) ==
    [IdleCall EXCEPT
       !.pc = "running", !.roomId = roomId, !.promise = "pending",
       !.task = [t \in Tasks |-> IF t = "base" THEN "exec" ELSE "smembers"],
       !.settled = [t \in Tasks |-> "pending"],
       !.pipe = [t \in Tasks |->
                   IF t = "base" THEN ProcessBatchCmds(<<ROOM(roomId)>>) ELSE <<>>]]

\* A sub-task whose round trips have all succeeded.
OnTaskDone(cl, t) ==
    [cl EXCEPT !.task[t] = "ok", !.settled[t] = "fulfilled"]

\* Mutant of OnTaskError: the first failure cancels the sub-tasks still
\* waiting for a round trip.
OnTaskErrorCancel(cl, t) ==
    [cl EXCEPT !.task = [u \in Tasks |->
                           IF u = t \/ cl.settled[u] = "pending" THEN "failed"
                           ELSE cl.task[u]],
               !.settled = [u \in Tasks |->
                              IF u = t
                              THEN (IF t = "base" THEN "rejected" ELSE "fulfilled")
                              ELSE IF cl.settled[u] = "pending" THEN "rejected"
                              ELSE cl.settled[u]],
               !.errs = @ \cup {t}]

\* A round trip of a sub-task throws: processBatch has no handler and
\* rejects; setPlayersTTL and setQuizTTL catch, log and end normally.
OnTaskError(cl, t) ==
    [cl EXCEPT !.task[t] = "failed",
               !.settled[t] = IF t = "base" THEN "rejected" ELSE "fulfilled",
               !.errs = @ \cup {t}]

\* Mutant of JoinReady: Promise.all, which is done at the first rejection.
JoinReadyFirstRejection(cl) ==
    \/ \A t \in Tasks : cl.settled[t] # "pending"
    \/ \E t \in Tasks : cl.settled[t] = "rejected"

\* await Promise.allSettled([...]): waits until every sub-task has settled,
\* and is fulfilled whatever the outcomes.
JoinReady(cl) == \A t \in Tasks : cl.settled[t] # "pending"

\* Mutant of JoinOutcome: Promise.all, rejected with the first rejection.
JoinOutcomeAll(cl) ==
    IF \E t \in Tasks : cl.settled[t] = "rejected" THEN "rejected" ELSE "fulfilled"

JoinOutcome(cl) == "fulfilled"

AllOk(cl) == \A t \in Tasks : cl.task[t] = "ok"

\* A collaborator calls setRoomTTL(roomId).
SetRoomTTL(c, roomId) ==
    /\ calls[c].pc \in {"idle", "returned"}
    /\ calls' = [calls EXCEPT
                   ![c] = [StartTasks(roomId) EXCEPT !.again = (roomId = refreshed),
                                                    !.ttl0 = ttl]]
    /\ UNCHANGED <<ttl, members, sweeps, refreshed>>

\* await this.redis.smembers(...) returns the members.
SmembersOk(c, t) ==
    /\ t \in {"players", "quiz"}
    /\ calls[c].task[t] = "smembers"
    /\ LET got == SMembers(ttl, members, MemberKey(calls[c].roomId, t))
       IN  calls' = [calls EXCEPT
                       ![c].task[t] = "exec",
                       ![c].read[t] = got,
                       ![c].pipe[t] = MemberCmds(calls[c].roomId, t, got)]
    /\ UNCHANGED <<ttl, members, sweeps, refreshed>>

\* await this.redis.smembers(...) throws.
SmembersFail(c, t) ==
    /\ t \in {"players", "quiz"}
    /\ calls[c].task[t] = "smembers"
    /\ calls' = [calls EXCEPT ![c] = OnTaskError(calls[c], t)]
    /\ UNCHANGED <<ttl, members, sweeps, refreshed>>

\* await pipeline.exec() of a sub-task returns.
ExecOk(c, t) ==
    /\ calls[c].task[t] = "exec"
    /\ ttl' = PipelineExec(ttl, calls[c].pipe[t])
    /\ calls' = [calls EXCEPT ![c] = OnTaskDone(calls[c], t)]
    /\ UNCHANGED <<members, sweeps, refreshed>>

\* await pipeline.exec() of a sub-task throws: nothing is applied.
ExecFail(c, t) ==
    /\ calls[c].task[t] = "exec"
    /\ calls' = [calls EXCEPT ![c] = OnTaskError(calls[c], t)]
    /\ UNCHANGED <<ttl, members, sweeps, refreshed>>

\* setRoomTTL returns to its caller.
Return(c) ==
    /\ calls[c].pc = "running"
    /\ JoinReady(calls[c])
    /\ calls' = [calls EXCEPT ![c].pc = "returned",
                              ![c].promise = JoinOutcome(calls[c])]
    /\ refreshed' = IF AllOk(calls[c]) THEN calls[c].roomId ELSE Undefined
    /\ UNCHANGED <<ttl, members, sweeps>>

\* -------------------------------------------------------------------- Init
\* The room a player has joined.
RoomOfPlayer(i) == <<ToString(((i - 1) % NRooms) + 1)>>
PlayersOf(r) == {<<"p" \o ToString(i)>> : i \in {j \in 1..NPlayers : RoomOfPlayer(j) = r}}
FirstQuizzes(nq) == {<<"q" \o ToString(i)>> : i \in 1..nq}

\* The keys the collaborators have created: the rooms in live, each with its
\* players and its first nq quizzes; with full, also the leaderboard, the
\* current-quiz pointer, the quiz choices and the player records. A full
\* store has been refreshed some time ago (every key has a remaining life),
\* the other one never (no key expires).
CreatedKeys(live, nq, full) ==
    {ROOM(r) : r \in live}
    \cup {ROOM_PLAYERS(r) : r \in {x \in live : PlayersOf(x) # {}}}
    \cup {ROOM_QUIZ_SET(r) : r \in {x \in live : nq > 0}}
    \cup {ROOM_QUIZ(r, q) : r \in live, q \in FirstQuizzes(nq)}
    \cup (IF full
          THEN {ROOM_LEADERBOARD(r) : r \in live}
               \cup {ROOM_CURRENT_QUIZ(r) : r \in live}
               \cup {ROOM_QUIZ_CHOICES(r, q) : r \in live, q \in FirstQuizzes(nq)}
               \cup {PLAYER(p) : p \in PlayerIds}
          ELSE {})

StoreOf(nlive, full) ==
    LET live == {<<ToString(i)>> : i \in 1..nlive}
        nq == IF full THEN NQuizzes ELSE NQuizzes - 1
        t0 == IF full THEN Remaining ELSE NoExpiry
    IN  /\ ttl = [k \in Keys |->
                    IF k \in CreatedKeys(live, nq, full) THEN t0 ELSE Absent]
        /\ members = [k \in SetKeys |->
                        IF k \notin CreatedKeys(live, nq, full) THEN {}
                        ELSE IF \E r \in RoomIds : k = ROOM_PLAYERS(r)
                             THEN PlayersOf(CHOOSE r \in RoomIds : k = ROOM_PLAYERS(r))
                             ELSE FirstQuizzes(nq)]

AtRest ==
    /\ sweeps = [s \in SweepIds |-> IdleSweep]
    /\ calls = [c \in CallIds |-> IdleCall]
    /\ refreshed = Undefined

Init ==
    /\ \E nlive \in 0..NRooms, full \in BOOLEAN : StoreOf(nlive, full)
    /\ AtRest

\* A store that holds one room, just created: most keys do not exist.
InitSparse ==
    /\ StoreOf(1, FALSE)
    /\ AtRest

SweepNext ==
    \E s \in OneSweep :
        \/ ManageTTL(s)
        \/ ScanOk(s)
        \/ ScanFail(s)
        \/ SweepExecOk(s)
        \/ SweepExecFail(s)

SpecSweep == Init /\ [][SweepNext]_vars

RefreshNext ==
    \E c \in OneCall :
        \/ \E roomId \in RoomIds \cup {Nonexistent} : SetRoomTTL(c, roomId)
        \/ \E t \in Tasks :
             \/ SmembersOk(c, t)
             \/ SmembersFail(c, t)
             \/ ExecOk(c, t)
             \/ ExecFail(c, t)
        \/ Return(c)

SpecRefresh == Init /\ [][RefreshNext]_vars

Next == SweepNext \/ RefreshNext

Spec == Init /\ [][Next]_vars

\* A sweep and a call in flight together, over the store of one new room.
SpecBoth == InitSparse /\ [][Next]_vars

\* The sweep when no round trip fails and the store answers every call.
SweepOkNext ==
    \E s \in OneSweep :
        \/ ManageTTL(s)
        \/ ScanOk(s)
        \/ SweepExecOk(s)

SweepFairness ==
    \A s \in OneSweep : WF_vars(ScanOk(s)) /\ WF_vars(SweepExecOk(s))

\* A store that holds no room or one room, new or with all its keys.
InitUpToOne ==
    /\ \E nlive \in 0..1, full \in BOOLEAN : StoreOf(nlive, full)
    /\ AtRest

SpecSweepFair == InitUpToOne /\ [][SweepOkNext]_vars /\ SweepFairness

\* A store that holds one room before its first quiz: its four base keys and
\* the player records, refreshed some time ago.
InitOneRoom ==
    /\ ttl = [k \in Keys |->
                IF k \in CreatedKeys({<<ToString(1)>>}, 0, TRUE) THEN Remaining ELSE Absent]
    /\ members = [k \in SetKeys |->
                    IF k = ROOM_PLAYERS(<<ToString(1)>>) THEN PlayersOf(<<ToString(1)>>)
                    ELSE {}]
    /\ AtRest

\* The room the store of InitOneRoom holds.
TheRoom == <<ToString(1)>>

\* One sweep and one call of setRoomTTL per caller on the same room, all in
\* flight together, no round trip failing.
ConvergeNext ==
    \/ \E s \in OneSweep :
          \/ sweeps[s].pc = "idle" /\ ManageTTL(s)
          \/ ScanOk(s)
          \/ SweepExecOk(s)
    \/ \E c \in CallIds :
          \/ calls[c].pc = "idle" /\ SetRoomTTL(c, TheRoom)
          \/ \E t \in Tasks :
               \/ SmembersOk(c, t)
               \/ ExecOk(c, t)
          \/ Return(c)

SpecConverge == InitOneRoom /\ [][ConvergeNext]_vars

\* Invocations of manageTTL that overlap: a tick fires before the sweep
\* before it has ended.
OverlapNext ==
    \E s \in SweepIds :
        \/ ManageTTL(s)
        \/ ScanOk(s)
        \/ ScanFail(s)
        \/ SweepExecOk(s)
        \/ SweepExecFail(s)

SpecOverlap == InitOneRoom /\ [][OverlapNext]_vars

\* The sweep over a store that may answer a pipeline with errors of single
\* commands.
PartialNext ==
    \E s \in OneSweep :
        \/ ManageTTL(s)
        \/ ScanOk(s)
        \/ ScanFail(s)
        \/ SweepExecOk(s)
        \/ \E bad \in FailingKeys(sweeps[s].pipeline) : SweepExecPartial(s, bad)
        \/ SweepExecFail(s)

SpecPartial == InitOneRoom /\ [][PartialNext]_vars

\* The sweep run at every trigger of the schedule while time passes, no round
\* trip failing and setRoomTTL never called.
TicksNext ==
    \E s \in OneSweep :
        \/ Tick(s)
        \/ ScanOk(s)
        \/ SweepExecOk(s)

SpecTicks == Init /\ [][TicksNext]_vars

\* The strings a caller may pass to setRoomTTL(roomId: string): the
\* identifiers of rooms, one of no room, the empty string and one that holds
\* the separator.
RoomIdStrings ==
    RoomIds \cup {Nonexistent, <<>>, <<ToString(1), Sep, "x">>}

\* One call of setRoomTTL at a time, on any string.
RoundTripNext ==
    \E c \in OneCall :
        \/ \E roomId \in RoomIdStrings : SetRoomTTL(c, roomId)
        \/ \E t \in Tasks :
             \/ SmembersOk(c, t)
             \/ SmembersFail(c, t)
             \/ ExecOk(c, t)
             \/ ExecFail(c, t)
        \/ Return(c)

SpecRoundTrip == InitOneRoom /\ [][RoundTripNext]_vars

\* processBatch on pages of arbitrary strings, within one invocation.
BatchNext ==
    \E s \in OneSweep :
        \/ ManageTTL(s)
        \/ \E rooms \in Pages : ProcessBatch(s, rooms)
        \/ SweepExecOk(s)
        \/ SweepExecFail(s)

SpecBatch == Init /\ [][BatchNext]_vars

\* ================================================================== claims
MembersOf(key) == IF key \in SetKeys THEN members[key] ELSE {}
BaseKeySet(roomId) ==
    {ROOM(roomId), ROOM_PLAYERS(roomId), ROOM_LEADERBOARD(roomId),
     ROOM_CURRENT_QUIZ(roomId)}
PlayerKeySet(roomId) == {PLAYER(p) : p \in MembersOf(ROOM_PLAYERS(roomId))}
QuizKeySet(roomId) ==
    {ROOM_QUIZ(roomId, q) : q \in MembersOf(ROOM_QUIZ_SET(roomId))}
    \cup {ROOM_QUIZ_CHOICES(roomId, q) : q \in MembersOf(ROOM_QUIZ_SET(roomId))}
TaskKeySet(roomId, t) ==
    IF t = "base" THEN BaseKeySet(roomId)
    ELSE IF t = "players" THEN PlayerKeySet(roomId) ELSE QuizKeySet(roomId)
ClassOf(t) ==
    IF t = "base" THEN TTL_ROOM ELSE IF t = "players" THEN TTL_PLAYER ELSE TTL_QUIZ
Present(keys) == {k \in keys : Exists(ttl, k)}
HasLife(keys, seconds) == \A k \in Present(keys) : ttl[k] = seconds
Returned(c) == calls[c].pc = "returned"

\* C1: setRoomTTL never raises to its caller: whichever of the round trips of
\* its three sub-tasks fail, the promise it returns is never rejected, and a
\* call that has returned has returned normally.
C1_NeverRaises ==
    \A c \in CallIds :
        /\ calls[c].promise # "rejected"
        /\ Returned(c) => calls[c].promise = "fulfilled"

\* C1 witness: a call has returned after all three sub-tasks failed.
C1_Witness ==
    \E c \in CallIds :
        Returned(c) /\ calls[c].errs = Tasks /\ calls[c].promise = "fulfilled"

\* C2: fan-out isolation: in a call that has returned, a sub-task none of whose
\* own round trips failed has run to completion and its existing keys carry
\* the life of their class, whatever happened to the two others; so with the
\* player sub-task failed, the base keys and the quiz keys are extended.
C2_FanOutIsolation ==
    \A c \in CallIds :
        Returned(c) =>
            \A t \in Tasks \ calls[c].errs :
                /\ calls[c].task[t] = "ok"
                /\ HasLife(TaskKeySet(calls[c].roomId, t), ClassOf(t))

\* C2 witness: the player sub-task alone failed, and base keys and quiz keys
\* that exist carry the room and quiz lives.
C2_Witness ==
    \E c \in CallIds :
        /\ Returned(c) /\ calls[c].errs = {"players"}
        /\ Present(BaseKeySet(calls[c].roomId)) = BaseKeySet(calls[c].roomId)
        /\ HasLife(BaseKeySet(calls[c].roomId), TTL_ROOM)
        /\ Present(QuizKeySet(calls[c].roomId)) # {}
        /\ HasLife(QuizKeySet(calls[c].roomId), TTL_QUIZ)
        /\ \E k \in Present(PlayerKeySet(calls[c].roomId)) : ttl[k] # TTL_PLAYER

\* What C3 asks of one step of invocation s.
C3_Step(s) ==
    /\ sweeps'[s].promise # "rejected"
    /\ (sweeps[s].result = "running" /\ sweeps'[s].result = "aborted") =>
           /\ sweeps'[s].pc = "done"
           /\ sweeps'[s].promise = "fulfilled"
           /\ ttl' = ttl
    /\ (sweeps[s].result = "aborted" /\ sweeps'[s] # sweeps[s]) =>
           /\ sweeps'[s].pc = "scan"
           /\ sweeps'[s].cursor = StartCursor
           /\ sweeps'[s].scans = 0 /\ sweeps'[s].batches = 0
           /\ sweeps'[s].seen = <<>>
           /\ ttl' = ttl

\* C3: a failure of a scan call or of a page's batch ends the invocation of
\* manageTTL at once (the failing step applies nothing, and the invocation
\* issues no further scan or batch), never rejects the promise handed to the
\* scheduler, and the invocation's next step is a new trigger that starts
\* from the start cursor with nothing carried over.
C3_SweepFailure == [][\A s \in SweepIds : C3_Step(s)]_vars

\* C3 witness: an invocation aborted in the middle of the keyspace, after a
\* batch was submitted.
C3_Witness ==
    \E s \in SweepIds :
        /\ sweeps[s].result = "aborted" /\ sweeps[s].pc = "done"
        /\ sweeps[s].cursor # StartCursor /\ sweeps[s].batches >= 1

\* C4: after a call of setRoomTTL(id) all of whose round trips succeeded, the
\* four base keys that exist have the ROOM life, the record of every member
\* of Room:{id}:Players the PLAYER life, and the record and the choices of
\* every member of Room:{id}:QuizSet the QUIZ life.
C4_TTLClasses ==
    \A c \in CallIds :
        (Returned(c) /\ AllOk(calls[c])) =>
            /\ HasLife(BaseKeySet(calls[c].roomId), TTL_ROOM)
            /\ HasLife(PlayerKeySet(calls[c].roomId), TTL_PLAYER)
            /\ HasLife(QuizKeySet(calls[c].roomId), TTL_QUIZ)

\* C4 witness: such a call on a room with two players and a quiz, all of
\* whose keys exist.
C4_Witness ==
    \E c \in CallIds :
        LET id == calls[c].roomId IN
        /\ Returned(c) /\ AllOk(calls[c])
        /\ Cardinality(MembersOf(ROOM_PLAYERS(id))) >= 2
        /\ MembersOf(ROOM_QUIZ_SET(id)) # {}
        /\ \A k \in BaseKeySet(id) : TTLOf(ttl, k) = TTL_ROOM
        /\ \A k \in PlayerKeySet(id) : TTLOf(ttl, k) = TTL_PLAYER
        /\ \A k \in QuizKeySet(id) : TTLOf(ttl, k) = TTL_QUIZ

\* The lives of the classes, and the state tree of a room.
ClassLives == {TTL_ROOM, TTL_PLAYER, TTL_QUIZ, TTL_LEADERBOARD}
DependentKeys(roomId) ==
    BaseKeySet(roomId) \cup PlayerKeySet(roomId) \cup QuizKeySet(roomId)
    \cup {ROOM_QUIZ_SET(roomId)}

\* C5 (as claimed): after a call of setRoomTTL(id) all of whose round trips
\* succeeded, every existing key of the room's state tree, the quiz set
\* Room:{id}:QuizSet included, has had its life reset to a class value.
C5_FullTreeRefreshed ==
    \A c \in CallIds :
        (Returned(c) /\ AllOk(calls[c])) =>
            \A k \in Present(DependentKeys(calls[c].roomId)) : ttl[k] \in ClassLives

\* C6: idempotence: a call of setRoomTTL(id) that follows at once a call for
\* the same id, both with every round trip succeeding, leaves the store as
\* it found it, every refreshed key with exactly the life of its class.
C6_Idempotent ==
    \A c \in CallIds :
        (Returned(c) /\ AllOk(calls[c]) /\ calls[c].again) =>
            /\ ttl = calls[c].ttl0
            /\ \A t \in Tasks : HasLife(TaskKeySet(calls[c].roomId, t), ClassOf(t))

\* C6 witness: a second successful call in succession on a room whose base
\* keys, player records and quiz keys exist.
C6_Witness ==
    \E c \in CallIds :
        LET id == calls[c].roomId IN
        /\ Returned(c) /\ AllOk(calls[c]) /\ calls[c].again
        /\ \A k \in BaseKeySet(id) : TTLOf(ttl, k) = TTL_ROOM
        /\ PlayerKeySet(id) # {} /\ \A k \in PlayerKeySet(id) : TTLOf(ttl, k) = TTL_PLAYER
        /\ QuizKeySet(id) # {} /\ \A k \in QuizKeySet(id) : TTLOf(ttl, k) = TTL_QUIZ

\* What C7 asks of one step.
RoomKeysOf(roomId) == {k \in Keys : RoomIdOf(k) = roomId /\ MatchesRoomPattern(k)}
C7_Step ==
    /\ \A k \in Keys : ttl[k] = Absent => ttl'[k] = Absent
    /\ members' = members
    /\ \A c \in CallIds :
          (calls'[c].pc = "returned" /\ calls'[c].errs = {}
             /\ Present(RoomKeysOf(calls'[c].roomId)) = {}) =>
              /\ AllOk(calls'[c])
              /\ \A k \in RoomKeysOf(calls'[c].roomId) : ttl'[k] = Absent

\* C7: no step of a sweep or of setRoomTTL creates a key or changes a
\* membership set, and a call on an identifier without keys whose round trips
\* all succeed ends with all three sub-tasks done and still no key of that
\* identifier in the store.
C7_NoKeyCreated == [][C7_Step]_vars

\* C7 witness: a call on the identifier "nonexistent" has returned with all
\* sub-tasks done, its base pipeline of four commands applied to no key, and
\* a sweep has completed with a batch.
C7_Witness ==
    /\ \E c \in CallIds :
          /\ Returned(c) /\ AllOk(calls[c]) /\ calls[c].roomId = Nonexistent
          /\ Len(calls[c].pipe["base"]) = 4
    /\ \E s \in SweepIds : sweeps[s].result = "completed" /\ sweeps[s].batches >= 1
    /\ \E k \in Keys : ttl[k] = Absent

\* Helpers of the claims about the sweep.
Occurrences(seq, x) == Cardinality({i \in 1..Len(seq) : seq[i] = x})
RoomKeysInStore == {k \in Keys : ttl[k] # Absent /\ k[1] = "Room"}
Completed(s) == sweeps[s].result = "completed"

\* C8 (as claimed): a sweep that completes over a static keyspace has visited
\* every key matching Room:* exactly once, has missed no room, and has
\* enqueued the base keys of no room more than once.
C8_EachRoomOnce ==
    \A s \in SweepIds :
        Completed(s) =>
            /\ \A k \in RoomKeysInStore : Occurrences(sweeps[s].seen, k) = 1
            /\ \A r \in RoomIds :
                  /\ Exists(ttl, ROOM(r)) => Occurrences(sweeps[s].enq, r) >= 1
                  /\ Occurrences(sweeps[s].enq, r) <= 1

\* The number of pages of b keys that hold n keys.
PagesFor(n, b) == (n + b - 1) \div b
\* C9 (as claimed): a sweep that completes over N keys matching Room:* with
\* the batch hint B has made exactly ceil(N / B) scan calls and submitted
\* exactly ceil(N / B) batches (3 and 3 for N = 250, B = 100).
C9_ScanCallCount ==
    \A s \in SweepIds :
        (Completed(s) /\ RoomKeysInStore # {}) =>
            LET want == Min(PagesFor(Cardinality(RoomKeysInStore), BATCH_SIZE), MaxCount)
            IN  sweeps[s].scans = want /\ sweeps[s].batches = want

\* The room a key of the store belongs to, and the batch expected for a page:
\* the ROOM expiration of the record, the player set, the leaderboard and the
\* current-quiz pointer of the room of each key of the page.
OwnerRoom(key) ==
    CHOOSE r \in RoomIds : \E i \in 1..Len(RoomSlots(r)) : RoomSlots(r)[i] = key
ExpectedBatch(page) ==
    {[key |-> k, seconds |-> 3 * 60 * 60] :
        k \in UNION {{ROOM(OwnerRoom(page[i])), ROOM_PLAYERS(OwnerRoom(page[i])),
                      ROOM_LEADERBOARD(OwnerRoom(page[i])),
                      ROOM_CURRENT_QUIZ(OwnerRoom(page[i]))} : i \in 1..Len(page)}}

\* What C9 asks of one step of invocation s.
C9_Step(s) ==
    LET old == sweeps[s]
        new == sweeps'[s]
        page == SubSeq(new.seen, Len(old.seen) + 1, Len(new.seen))
    IN  /\ (old.pc = "scan" /\ new # old /\ new.result # "aborted") =>
              IF page # <<>>
              THEN /\ new.pc = "exec"
                   /\ new.rooms = page
                   /\ new.batches = Min(old.batches + 1, MaxCount)
                   /\ Len(new.pipeline) = 4 * Len(page)
                   /\ {new.pipeline[j] : j \in 1..Len(new.pipeline)} = ExpectedBatch(page)
              ELSE new.pc # "exec" /\ new.batches = old.batches
        /\ (old.pc = "exec" /\ new # old) =>
              new.pc # "exec" /\ new.batches = old.batches
        /\ (old.pc = "scan" /\ new.result = "aborted") =>
              new.pc # "exec" /\ new.batches = old.batches

\* C9 (amended): the store decides the pages, and the sweep submits exactly
\* one pipelined batch for each non-empty page a scan call returns, whatever
\* the page's size: the batch holds four commands per key of the page, the
\* ROOM expirations of the four base keys of each key's room; an empty page,
\* a reply to a batch and a failure submit nothing.
C9_OneBatchPerPage == [][\A s \in SweepIds : C9_Step(s)]_vars

\* C9 witness: the batch of a second or later page that holds keys of two
\* rooms is in flight.
C9_Witness ==
    \E s \in SweepIds :
        /\ sweeps[s].pc = "exec" /\ sweeps[s].scans >= 2
        /\ \E i, j \in 1..Len(sweeps[s].rooms) :
              OwnerRoom(sweeps[s].rooms[i]) # OwnerRoom(sweeps[s].rooms[j])
        /\ Len(sweeps[s].pipeline) = 4 * Len(sweeps[s].rooms)

\* C10 (as claimed): with no key matching Room:* in the store, a sweep that
\* completes has made exactly one scan call and submitted no batch.
C10_OneScanCall ==
    \A s \in SweepIds :
        (Completed(s) /\ RoomKeysInStore = {}) =>
            sweeps[s].scans = 1 /\ sweeps[s].batches = 0

\* C10 (amended): with no key matching Room:* in the store, every page of a
\* sweep is empty and no batch is submitted, the sweep making at least one
\* scan call, and exactly one when the store holds no key at all; and a batch
\* is never submitted for an empty page.
C10_EmptySweep ==
    \A s \in SweepIds :
        /\ sweeps[s].pc = "exec" => sweeps[s].rooms # <<>>
        /\ RoomKeysInStore = {} =>
              /\ sweeps[s].pc # "exec"
              /\ sweeps[s].batches = 0 /\ sweeps[s].seen = <<>>
              /\ Completed(s) => sweeps[s].scans >= 1
        /\ (Completed(s) /\ \A k \in Keys : ttl[k] = Absent) => sweeps[s].scans = 1

\* C10 witness: a sweep over a store without room keys has completed after
\* two scan calls and no batch.
C10_Witness ==
    \E s \in SweepIds :
        /\ Completed(s) /\ RoomKeysInStore = {}
        /\ sweeps[s].scans = 2 /\ sweeps[s].batches = 0

\* The keys of a page that do not have the shape Room:{id}, the well-formed
\* keys of a page in their order, and the endings of the four base keys.
Malformed == {<<"Room">>, <<"Room", ":">>}
WellFormed(page) == SelectSeq(page, LAMBDA k : k \notin Malformed)
BaseSuffix ==
    <<<<>>, <<":", "Players">>, <<":", "Leaderboard">>, <<":", "CurrentQuiz">>>>

\* C11: malformed key tolerance: a page that holds "Room:" or "Room" is turned
\* into a batch without failing the invocation; the malformed keys contribute
\* no command, and every well-formed key Room:{id} of the page has the ROOM
\* expirations of its four base keys in that same batch, in the page's order.
C11_MalformedSkipped ==
    \A s \in SweepIds :
        sweeps[s].pc = "exec" =>
            LET page == sweeps[s].rooms
                ok == WellFormed(page)
                batch == sweeps[s].pipeline
            IN  (\A i \in 1..Len(page) :
                     page[i] \in Malformed \/ \E r \in RoomIds : page[i] = <<"Room", ":">> \o r) =>
                    /\ sweeps[s].result = "running"
                    /\ Len(batch) = 4 * Len(ok)
                    /\ \A i \in 1..Len(ok) : \A j \in 1..4 :
                          batch[4 * (i - 1) + j] =
                              [key |-> ok[i] \o BaseSuffix[j], seconds |-> 10800]

\* C11 witness: the batch of a page that holds both malformed keys and a room
\* key is in flight, with the four commands of that room.
C11_Witness ==
    \E s \in SweepIds :
        /\ sweeps[s].pc = "exec"
        /\ \E i, j, k \in 1..Len(sweeps[s].rooms) :
              /\ sweeps[s].rooms[i] = <<"Room">>
              /\ sweeps[s].rooms[j] = <<"Room", ":">>
              /\ sweeps[s].rooms[k] \notin Malformed
        /\ Len(sweeps[s].pipeline) = 4

\* The keys the store holds after slot from up to the slot the reply's cursor
\* names (the end of the keyspace for the sentinel), Room:* only.
PageBetween(from, cursor) ==
    LET space == SelectSeq(KeySlots, LAMBDA k : ttl[k] # Absent)
        upto == IF cursor = 0 THEN Len(space) ELSE cursor
    IN  SelectSeq(SubSeq(space, from + 1, upto),
                  LAMBDA k : Len(k) >= 2 /\ k[1] = "Room" /\ k[2] = ":")

\* What C12 asks of one step of invocation s.
C12_Step(s) ==
    LET old == sweeps[s]
        new == sweeps'[s]
        page == SubSeq(new.seen, Len(old.seen) + 1, Len(new.seen))
    IN  /\ (old.pc \in {"idle", "done"} /\ new # old) =>
              new.pc = "scan" /\ new.cursor = 0 /\ new.scans = 0
        /\ (old.pc = "scan" /\ new # old /\ new.result # "aborted") =>
              /\ new.scans = Min(old.scans + 1, MaxCount)
              /\ new.cursor = 0 \/ new.cursor > old.cursor
              /\ page = PageBetween(old.cursor, new.cursor)
              /\ new.pc = IF page # <<>> THEN "exec"
                          ELSE IF new.cursor = 0 THEN "done" ELSE "scan"
              /\ new.pc = "exec" => new.rooms = page /\ new.result = "running"
              /\ new.pc = "done" => new.result = "completed"
        /\ (old.pc = "exec" /\ new # old /\ new.result # "aborted") =>
              /\ new.cursor = old.cursor
              /\ new.pc = IF old.cursor = 0 THEN "done" ELSE "scan"
              /\ new.pc = "done" => new.result = "completed"
        /\ (new.result = "completed") => new.scans >= 1 /\ new.cursor = 0

\* C12: the sweep's state machine: an invocation starts with the start cursor,
\* makes at least one scan call, passes every cursor other than the sentinel
\* to the next scan call as it received it (each page continues the keyspace
\* where the page before ended), still hands to processBatch the page that
\* comes with the sentinel, and is done exactly after the first reply whose
\* cursor is the sentinel; and when no round trip fails and the store answers,
\* an invocation that has started completes.
C12_SweepTerminates ==
    /\ [][\A s \in SweepIds : C12_Step(s)]_vars
    /\ \A s \in SweepIds :
          (sweeps[s].result = "running") ~> (sweeps[s].result = "completed")

\* C12 witness: an invocation has completed after two scan calls or more, the
\* page that came with the sentinel having been handed to processBatch.
C12_Witness ==
    \E s \in SweepIds :
        /\ Completed(s) /\ sweeps[s].scans >= 2 /\ sweeps[s].batches >= 2
        /\ sweeps[s].seen # <<>>
        /\ sweeps[s].seen[Len(sweeps[s].seen)] =
               LET space == SelectSeq(KeySlots, LAMBDA k : ttl[k] # Absent)
               IN  space[Len(space)]

\* A sub-task that waits for a reply of the store.
Outstanding(c, t) == calls[c].task[t] \in {"smembers", "exec"}

\* C13: setRoomTTL starts its three sub-tasks before it waits (a call in
\* progress has started all three), and returns only when all three have
\* settled: a call that has returned has no sub-task waiting for a reply of
\* the store.
C13_ReturnsAfterAllSettled ==
    \A c \in CallIds :
        /\ calls[c].pc = "running" =>
              \A t \in {"base", "players", "quiz"} : calls[c].task[t] # "none"
        /\ calls[c].pc = "returned" =>
              \A t \in {"base", "players", "quiz"} :
                  /\ ~Outstanding(c, t)
                  /\ calls[c].settled[t] \in {"fulfilled", "rejected"}

\* C13 witness: a call has returned whose base sub-task was rejected and whose
\* two other sub-tasks ran their two round trips to the end.
C13_Witness ==
    \E c \in CallIds :
        /\ calls[c].pc = "returned"
        /\ calls[c].settled["base"] = "rejected"
        /\ calls[c].task["players"] = "ok" /\ calls[c].task["quiz"] = "ok"

\* The life of the class of a key, by the key's shape: a player record, a
\* quiz record or its choices, and the other keys of a room.
KeyClass(key) ==
    IF key[1] = "Player" THEN 7200
    ELSE IF Len(key) >= 5 /\ key[5] = "Quiz" THEN 3600
    ELSE 10800

\* The pipelines that wait for the store, and the operations that have ended.
InFlight ==
    {sweeps[s].pipeline : s \in {x \in SweepIds : sweeps[x].pc = "exec"}}
    \cup UNION {{calls[c].pipe[t] : t \in {u \in Tasks : calls[c].task[u] = "exec"}} :
                   c \in CallIds}
Quiescent ==
    /\ \A s \in SweepIds : sweeps[s].pc \in {"idle", "done"}
    /\ \A c \in CallIds : calls[c].pc \in {"idle", "returned"}
SweepsDone == {s \in SweepIds : sweeps[s].pc = "done"}
CallsDone == {c \in CallIds : calls[c].pc = "returned"}

\* The store after the operations that have ended have run one after the
\* other, in whatever order, on the store of one room refreshed 1800 s ago: a
\* sweep or a call gives the room's base keys the ROOM life, a call gives
\* the records of the room's players the PLAYER life.
SequentialTTL(room) ==
    [k \in Keys |->
        IF ttl[k] = Absent THEN Absent
        ELSE IF k \in BaseKeySet(room) /\ SweepsDone \cup CallsDone # {} THEN 10800
        ELSE IF k \in PlayerKeySet(room) /\ CallsDone # {} THEN 7200
        ELSE Remaining]

\* C14: concurrent writers converge: with a sweep and two calls of setRoomTTL
\* on the same room in flight together, over a static keyspace and no round
\* trip failing, every expiration command waiting for the store carries the
\* life of the class of its key, and whenever no operation is in flight the
\* store is the one that results from running the ended operations one after
\* the other, whatever the interleaving was.
C14_WritersConverge ==
    /\ \A cmds \in InFlight : \A i \in 1..Len(cmds) :
          cmds[i].seconds = KeyClass(cmds[i].key)
    /\ Quiescent => ttl = SequentialTTL(<<"1">>)

\* C14 witness: the sweep and both calls have ended, both calls having started
\* before any of the three had written the room's keys, and the room's base
\* keys and player records carry the lives of their classes.
C14_Witness ==
    /\ SweepsDone # {} /\ CallsDone = CallIds
    /\ \A c \in CallIds : calls[c].ttl0[<<"Room", ":", "1">>] = Remaining
    /\ \E s \in SweepsDone : sweeps[s].batches >= 1
    /\ ttl[<<"Room", ":", "1">>] = 10800
    /\ ttl[<<"Room", ":", "1", ":", "Players">>] = 10800
    /\ ttl[<<"Player", ":", "p1">>] = 7200

\* What C15 asks of one step: the step of one invocation leaves the cursor,
\* the page, the batch and the outcome of every other invocation as they were.
C15_Step ==
    \A s \in SweepIds : \A o \in SweepIds \ {s} :
        sweeps'[s] # sweeps[s] => sweeps'[o] = sweeps[o]

\* What C15 asks of a state: the pages an invocation has received are the keys
\* Room:* from the start of the keyspace up to its own cursor, all of them
\* once it has completed.
C15_OwnScan ==
    \A s \in SweepIds :
        /\ (sweeps[s].result = "running" /\ sweeps[s].cursor # 0) =>
              sweeps[s].seen = PageBetween(0, sweeps[s].cursor)
        /\ (sweeps[s].result = "running" /\ sweeps[s].cursor = 0) =>
              sweeps[s].seen \in {<<>>, PageBetween(0, 0)}
        /\ sweeps[s].result = "completed" => sweeps[s].seen = PageBetween(0, 0)

\* C15: invocations of the sweep are independent: the cursor and the batch
\* belong to one invocation, so of two invocations that overlap each runs its
\* own scan from the start cursor to the sentinel over its own cursors, and a
\* failure in one neither ends the other nor changes its cursor.
C15_SweepsIndependent == [][C15_Step]_vars /\ []C15_OwnScan

\* C15 witness: two invocations are in progress at different cursors, one
\* waiting for a scan reply and one for the reply to a batch.
C15_Witness ==
    \E s \in SweepIds : \E o \in SweepIds \ {s} :
        /\ sweeps[s].pc = "scan" /\ sweeps[o].pc = "exec"
        /\ sweeps[s].cursor # 0 /\ sweeps[o].cursor # 0
        /\ sweeps[s].cursor # sweeps[o].cursor

\* The four base keys of a room, spelled out, and those of all rooms.
FourBaseKeys(r) == {<<"Room", ":">> \o r \o BaseSuffix[j] : j \in 1..4}
AllBaseKeys == UNION {FourBaseKeys(r) : r \in RoomIds}

\* What C16 asks of one step of a sweep.
C16_Step ==
    /\ members' = members
    /\ \A k \in Keys :
          ttl'[k] # ttl[k] => k \in AllBaseKeys /\ ttl'[k] = 10800
    /\ \A s \in SweepIds :
          sweeps'[s].pc = "exec" =>
              \A i \in 1..Len(sweeps'[s].pipeline) :
                  /\ sweeps'[s].pipeline[i].seconds = 10800
                  /\ sweeps'[s].pipeline[i].key \in AllBaseKeys
                  /\ \E j \in 1..Len(sweeps'[s].rooms) :
                        sweeps'[s].rooms[j][3] = sweeps'[s].pipeline[i].key[3]

\* C16: frame of the sweep: the batch of a page holds only expirations of the
\* four base keys (record, player set, leaderboard, current-quiz pointer) of
\* the rooms of the page's keys, all with the ROOM life; no step of a sweep
\* changes the life of a player record, of a quiz record or its choices or of
\* a quiz set, nor the members of any set.
C16_SweepFrame == [][C16_Step]_vars

\* C16 witness: a sweep has completed over a store that holds a room with its
\* quiz set, a quiz, its choices and player records: the base keys have the
\* ROOM life, the others the life they had.
C16_Witness ==
    \E s \in SweepIds :
        /\ Completed(s) /\ sweeps[s].batches >= 1
        /\ \A k \in FourBaseKeys(<<"1">>) : ttl[k] = 10800
        /\ ttl[<<"Room", ":", "1", ":", "QuizSet">>] = Remaining
        /\ ttl[<<"Room", ":", "1", ":", "Quiz", ":", "q1">>] = Remaining
        /\ ttl[<<"Room", ":", "1", ":", "Quiz", ":", "q1", ":", "Choices">>] = Remaining
        /\ ttl[<<"Player", ":", "p1">>] = Remaining
        /\ members[<<"Room", ":", "1", ":", "Players">>] # {}

\* The commands of a pipeline, and the commands the members read call for.
CmdSet(cmds) == {cmds[i] : i \in 1..Len(cmds)}
PlayerCmdsFor(read) ==
    {[key |-> <<"Player", ":">> \o p, seconds |-> 7200] : p \in read}
QuizCmdsFor(id, read) ==
    {[key |-> <<"Room", ":">> \o id \o <<":", "Quiz", ":">> \o q, seconds |-> 3600] :
        q \in read}
    \cup {[key |-> <<"Room", ":">> \o id \o <<":", "Quiz", ":">> \o q \o <<":", "Choices">>,
           seconds |-> 3600] : q \in read}

\* What C17 asks of a state of call c.
C17_State(c) ==
    LET cl == calls[c] IN
    /\ cl.read["players"] \subseteq MembersOf(<<"Room", ":">> \o cl.roomId \o <<":", "Players">>)
    /\ cl.read["quiz"] \subseteq MembersOf(<<"Room", ":">> \o cl.roomId \o <<":", "QuizSet">>)
    /\ CmdSet(cl.pipe["players"]) = PlayerCmdsFor(cl.read["players"])
    /\ Len(cl.pipe["players"]) = Cardinality(cl.read["players"])
    /\ CmdSet(cl.pipe["quiz"]) = QuizCmdsFor(cl.roomId, cl.read["quiz"])
    /\ Len(cl.pipe["quiz"]) = 2 * Cardinality(cl.read["quiz"])

\* What C17 asks of a step of call c: a failed read of the members ends the
\* sub-task with no command built and nothing applied.
C17_Step(c) ==
    \A t \in {"players", "quiz"} :
        (calls[c].task[t] = "smembers" /\ calls'[c].task[t] = "failed") =>
            /\ calls'[c].pipe[t] = <<>>
            /\ calls'[c].read[t] = {}
            /\ ttl' = ttl

\* C17: the service invents no identifier: in a call of setRoomTTL the player
\* sub-task's commands are exactly one PLAYER expiration of Player:{p} for
\* each member p its read of Room:{id}:Players returned, the quiz sub-task's
\* exactly the QUIZ expirations of the record and of the choices of each
\* member its read of Room:{id}:QuizSet returned, and a sub-task whose read
\* failed issues no expiration.
C17_NoInventedIds ==
    /\ [](\A c \in CallIds : C17_State(c))
    /\ [][\A c \in CallIds : C17_Step(c)]_vars

\* C17 witness: in one call, the player sub-task has read two members and
\* built their two commands, and the read of an existing, non-empty quiz set
\* has failed, leaving the quiz sub-task without a command.
C17_Witness ==
    \E c \in CallIds :
        LET cl == calls[c] IN
        /\ Cardinality(cl.read["players"]) = 2 /\ Len(cl.pipe["players"]) = 2
        /\ cl.task["players"] = "ok"
        /\ cl.task["quiz"] = "failed" /\ cl.pipe["quiz"] = <<>>
        /\ ttl[<<"Room", ":">> \o cl.roomId \o <<":", "QuizSet">>] # Absent
        /\ members[<<"Room", ":">> \o cl.roomId \o <<":", "QuizSet">>] # {}

\* The existing keys a batch addresses.
Addressed(cmds) == {k \in Keys : ttl[k] # Absent /\ \E i \in 1..Len(cmds) : cmds[i].key = k}

\* What C18 asks of the step of invocation s in which the reply to a batch
\* arrives, the batch having been delivered.
C18_Step(s) ==
    LET old == sweeps[s]
        new == sweeps'[s]
    IN  (old.pc = "exec" /\ new # old /\ new.result # "aborted") =>
            /\ Cardinality({k \in Addressed(old.pipeline) : ttl'[k] # 10800}) <= MaxFailed
            /\ \A k \in Keys \ Addressed(old.pipeline) : ttl'[k] = ttl[k]
            /\ new.promise # "rejected"
            /\ new.batches = old.batches
            /\ new.cursor = old.cursor
            /\ new.pc = IF old.cursor = 0 THEN "done" ELSE "scan"
            /\ new.result = IF old.cursor = 0 THEN "completed" ELSE "running"

\* C18: a partial failure of a pipeline is best effort: when the batch of a
\* page is delivered and the commands on some keys fail one by one, the
\* other commands of the batch are applied, the call of the batch ends as a
\* success (nothing is submitted again), and the sweep goes on with the next
\* scan call, or completes after the last page.
C18_PartialFailure == [][\A s \in SweepIds : C18_Step(s)]_vars

\* C18 witness: a sweep has completed although the command on Room:1 failed
\* in each batch: the room's record keeps its life and the room's player
\* set, addressed by the same batches, has the ROOM life.
C18_Witness ==
    \E s \in SweepIds :
        /\ Completed(s) /\ sweeps[s].batches >= 1
        /\ ttl[<<"Room", ":", "1">>] \in {Remaining, NoExpiry}
        /\ ttl[<<"Room", ":", "1", ":", "Players">>] = 10800

\* What C19 asks of one step: no base key of a room that exists is removed.
C19_Step ==
    \A k \in AllBaseKeys : ttl[k] # Absent => ttl'[k] # Absent

\* What C19 asks of a state: when the sweep of a trigger has completed, every
\* base key that exists has the ROOM life.
C19_Reset ==
    \A s \in SweepIds :
        sweeps[s].result = "completed" =>
            \A k \in AllBaseKeys : ttl[k] # Absent => ttl[k] = 10800

\* C19: the sweep keeps rooms alive without end: with a sweep at every
\* trigger of the schedule, 60 s apart and so less than the ROOM life, each
\* completing without failure, every base key of a room that exists has the
\* ROOM life again after each sweep and none ever runs out, whether the room
\* has players or not and without setRoomTTL ever being called.
C19_KeptAlive == [][C19_Step]_vars /\ []C19_Reset

\* C19 witness: the record of a player of room 1 and the room's quiz set
\* have run out, setRoomTTL never having been called, and the room's four
\* base keys exist with the ROOM life after the sweep of the last trigger.
C19_Witness ==
    \E s \in SweepIds :
        /\ sweeps[s].result = "completed"
        /\ ttl[<<"Player", ":", "p1">>] = Absent
        /\ ttl[<<"Room", ":", "1", ":", "QuizSet">>] = Absent
        /\ \A k \in FourBaseKeys(<<"1">>) : ttl[k] = 10800
        /\ \A c \in CallIds : calls[c].pc = "idle"

\* C20 (as claimed): identifier round trip: in every call setRoomTTL(roomId),
\* whatever the string roomId, the identifier processBatch derives from the
\* key Room:{roomId} is roomId, so that the base sub-task's batch is the ROOM
\* expiration of the four base keys of roomId, the room whose player set and
\* quiz set the two other sub-tasks read.
C20_RoundTrip ==
    \A c \in CallIds :
        calls[c].pc \in {"running", "returned"} =>
            /\ At(Split(<<"Room", ":">> \o calls[c].roomId), 1) = calls[c].roomId
            /\ CmdSet(calls[c].pipe["base"]) =
                   {[key |-> <<"Room", ":">> \o calls[c].roomId \o BaseSuffix[j],
                     seconds |-> 10800] : j \in 1..4}

====
